---- MODULE Spec2Model ----
(***************************************************************************)
(* Model of scripts/winrm-cmd.py: one invocation of the script, from the   *)
(* argument-count check to process exit.  The script is straight-line      *)
(* top-level code; each statement group is one action and pc is the        *)
(* position of the interpreter.  The pywinrm calls (winrm.Session,         *)
(* session.run_ps) are calls into an external library: each is one action  *)
(* whose outcomes (a returned value, or a raised exception) are chosen     *)
(* nondeterministically.  The script has no exception handler around them, *)
(* so a raised exception ends the process the way the Python interpreter   *)
(* ends it: traceback on stderr, exit status 1.                            *)
(***************************************************************************)
EXTENDS Integers, Sequences, FiniteSets, TLC

(* ------------------------------ bounds --------------------------------- *)

\* Largest number of positional arguments tried (the script wants exactly 4).
MaxArgs == 5
\* Longest captured stdout / stderr byte string tried.
MaxLen == 2
\* Largest remote exit code tried (codes 0..2 and 255..MaxStatus are tried).
MaxStatus == 257

(* --------------------------- input domains ----------------------------- *)

\* Values an argument may take.
Words == {"a", "b"}
\* Byte values that occur in captured output: LF and a non-ASCII byte.
Bytes == {10, 255}
\* Byte strings of length 0..MaxLen.
ByteStrings == UNION {[1..n -> Bytes] : n \in 0..MaxLen}
\* Exit codes the remote command may return.
StatusCodes == (0..2) \cup (255..MaxStatus)
\* sys.argv[0]
ProgName == "scripts/winrm-cmd.py"
\* Command lines: the program name followed by 0..MaxArgs arguments.
ArgVectors == UNION {{<<ProgName>> \o a : a \in [1..n -> Words]} : n \in 0..MaxArgs}

\* An unset Python name / a value not produced.
None == [none |-> TRUE]
Unset == ""

VARIABLES
    argv,        \* sys.argv; also what the process listing shows
    haveWinrm,   \* whether "import winrm" succeeds in this environment
    pc,          \* position of the interpreter in the script
    host, user, password, command,   \* line 16
    session,     \* the winrm.Session object, or None
    result,      \* the Response returned by run_ps, or None
    out,         \* writes made to local standard output, in order
    err,         \* writes made to local standard error, in order
    exitCode,    \* exit status seen by the parent (meaningful when pc = "done")
    shell,       \* remote shell of this invocation: "none", "open", "closed"
    captured,    \* bytes the transport had received from the remote command
    sessions,    \* number of Session constructions
    submissions, \* number of run_ps calls
    failure,     \* why the process ended early, or "none"
    trace        \* the events of the invocation, in order

vars == <<argv, haveWinrm, pc, host, user, password, command, session, result,
          out, err, exitCode, shell, captured, sessions, submissions, failure,
          trace>>

(* ------------------------- process primitives -------------------------- *)

\* len(sys.argv) the script requires (line 12).
ArgvLen == 5
\* sys.exit(2) of the usage error (line 14).
ExitUsage == 2
\* sys.exit(2) of the failed import (line 22).
ExitNoTransport == 2
\* Status with which the interpreter ends on an uncaught exception.
ExitUncaught == 1

\* Exit status the parent of a POSIX process observes for exit(n).
ExitStatus(n) == n % 256

\* print(..., file=sys.stderr): one text line.
TextLine(tokens) == [kind |-> "text", text |-> tokens, data |-> <<>>]
\* A write of raw bytes.
RawBytes(b) == [kind |-> "bytes", text |-> <<>>, data |-> b]

\* Line 13.
UsageLine(prog) == TextLine(<<"Usage:", prog, "<host>", "<user>", "<password>",
                              "<powershell-command>">>)
\* Line 21.
RemediationLine == TextLine(<<"pywinrm not installed. Install with: pip install pywinrm">>)
\* What the interpreter prints for an uncaught exception.
TracebackLine == TextLine(<<"Traceback (most recent call last):">>)

\* "\n" -> "\r\n", as a text-mode stream with newline translation writes.
RECURSIVE TranslateNewlines(_)
TranslateNewlines(b) ==
    IF b = <<>> THEN <<>>
    ELSE (IF Head(b) = 10 THEN <<13, 10>> ELSE <<Head(b)>>) \o TranslateNewlines(Tail(b))

\* A relay through a text stream instead of the byte buffer.
TextModeWrite(stream, b) == Append(stream, RawBytes(TranslateNewlines(b)))

\* sys.stdout.buffer.write(b) / sys.stderr.buffer.write(b): lines 33, 35.
BufferWrite(stream, b) == Append(stream, RawBytes(b))

\* All bytes written to a stream by raw writes, concatenated.
RECURSIVE BytesOf(_)
BytesOf(stream) ==
    IF stream = <<>> THEN <<>>
    ELSE Head(stream).data \o BytesOf(Tail(stream))

\* The text lines written to a stream.
TextOf(stream) == SelectSeq(stream, LAMBDA w : w.kind = "text")

Range(s) == {s[i] : i \in DOMAIN s}

\* The command line of the process as the operating system lists it.
ProcListing == argv

(* ------------------------------- Init ---------------------------------- *)

Init ==
    /\ argv \in ArgVectors
    /\ haveWinrm \in BOOLEAN
    /\ pc = "argcheck"
    /\ host = Unset /\ user = Unset /\ password = Unset /\ command = Unset
    /\ session = None
    /\ result = None
    /\ out = <<>>
    /\ err = <<>>
    /\ exitCode = 0
    /\ shell = "none"
    /\ captured = [std_out |-> <<>>, std_err |-> <<>>]
    /\ sessions = 0
    /\ submissions = 0
    /\ failure = "none"
    /\ trace = <<>>

(* ------------------------------ actions -------------------------------- *)

\* The interpreter ends the process on an uncaught exception.
Uncaught(kind) ==
    /\ err' = Append(err, TracebackLine)
    /\ exitCode' = ExitStatus(ExitUncaught)
    /\ failure' = kind
    /\ pc' = "done"


\* A fewer-arguments-only check: "<" where the script has "!=".
CheckArgsFewerOnly ==
    /\ pc = "argcheck"
    /\ trace' = Append(trace, "argcheck")
    /\ IF Len(argv) < ArgvLen
       THEN /\ err' = Append(err, UsageLine(argv[1]))
            /\ exitCode' = ExitStatus(ExitUsage)
            /\ failure' = "usage"
            /\ pc' = "done"
            /\ UNCHANGED <<host, user, password, command>>
       ELSE /\ host' = argv[2] /\ user' = argv[3]
            /\ password' = argv[4] /\ command' = argv[5]
            /\ pc' = "import"
            /\ UNCHANGED <<err, exitCode, failure>>
    /\ UNCHANGED <<argv, haveWinrm, session, result, out, shell, captured,
                   sessions, submissions>>

\* The dependency is looked for before the arguments are counted.
CheckArgsAfterImport ==
    /\ pc = "argcheck"
    /\ IF ~haveWinrm
       THEN /\ trace' = Append(trace, "depcheck")
            /\ err' = Append(err, RemediationLine)
            /\ exitCode' = ExitStatus(ExitNoTransport)
            /\ failure' = "import"
            /\ pc' = "done"
            /\ UNCHANGED <<host, user, password, command>>
       ELSE /\ trace' = Append(trace, "argcheck")
            /\ IF Len(argv) # ArgvLen
               THEN /\ err' = Append(err, UsageLine(argv[1]))
                    /\ exitCode' = ExitStatus(ExitUsage)
                    /\ failure' = "usage"
                    /\ pc' = "done"
                    /\ UNCHANGED <<host, user, password, command>>
               ELSE /\ host' = argv[2] /\ user' = argv[3]
                    /\ password' = argv[4] /\ command' = argv[5]
                    /\ pc' = "import"
                    /\ UNCHANGED <<err, exitCode, failure>>
    /\ UNCHANGED <<argv, haveWinrm, session, result, out, shell, captured,
                   sessions, submissions>>

\* Lines 12-16: the argument-count check and the unpacking of sys.argv.
CheckArgs ==
    /\ pc = "argcheck"
    /\ trace' = Append(trace, "argcheck")
    /\ IF Len(argv) # ArgvLen
       THEN /\ err' = Append(err, UsageLine(argv[1]))
            /\ exitCode' = ExitStatus(ExitUsage)
            /\ failure' = "usage"
            /\ pc' = "done"
            /\ UNCHANGED <<host, user, password, command>>
       ELSE /\ host' = argv[2] /\ user' = argv[3]
            /\ password' = argv[4] /\ command' = argv[5]
            /\ pc' = "import"
            /\ UNCHANGED <<err, exitCode, failure>>
    /\ UNCHANGED <<argv, haveWinrm, session, result, out, shell, captured,
                   sessions, submissions>>

\* The import guard without its sys.exit: the message is printed and the
\* script goes on.
ImportWinrmNoExit ==
    /\ pc = "import"
    /\ trace' = Append(trace, "depcheck")
    /\ err' = IF haveWinrm THEN err ELSE Append(err, RemediationLine)
    /\ pc' = "session"
    /\ UNCHANGED <<argv, haveWinrm, host, user, password, command, session,
                   result, out, exitCode, shell, captured, sessions,
                   submissions, failure>>

\* Lines 18-22: import winrm, guarded by except ImportError.
ImportWinrm ==
    /\ pc = "import"
    /\ trace' = Append(trace, "depcheck")
    /\ IF haveWinrm
       THEN /\ pc' = "session"
            /\ UNCHANGED <<err, exitCode, failure>>
       ELSE /\ err' = Append(err, RemediationLine)
            /\ exitCode' = ExitStatus(ExitNoTransport)
            /\ failure' = "import"
            /\ pc' = "done"
    /\ UNCHANGED <<argv, haveWinrm, host, user, password, command, session,
                   result, out, shell, captured, sessions, submissions>>

\* Lines 24-28: winrm.Session(url, auth=(user, password), transport="ntlm").
\* The constructor either returns the session or raises.
CreateSession ==
    /\ pc = "session"
    /\ trace' = Append(trace, "session")
    /\ sessions' = sessions + 1
    /\ \/ /\ session' = [url |-> <<"http://", host, ":5985/wsman">>,
                         auth |-> <<user, password>>,
                         transport |-> "ntlm"]
          /\ pc' = "run_ps"
          /\ UNCHANGED <<err, exitCode, failure>>
       \/ /\ Uncaught("session")
          /\ UNCHANGED session
    /\ UNCHANGED <<argv, haveWinrm, host, user, password, command, result,
                   out, shell, captured, submissions>>

\* run_ps called again after it raised, up to three submissions.
RunPsRetry ==
    /\ pc = "run_ps"
    /\ session # None
    /\ trace' = Append(trace, "run_ps")
    /\ submissions' = submissions + 1
    /\ \/ \E o \in ByteStrings, e \in ByteStrings, c \in StatusCodes :
            /\ result' = [std_out |-> o, std_err |-> e, status_code |-> c]
            /\ captured' = [std_out |-> o, std_err |-> e]
            /\ shell' = "closed"
            /\ pc' = "relay_out"
            /\ UNCHANGED <<err, exitCode, failure>>
       \/ /\ IF submissions < 2
             THEN pc' = "run_ps" /\ UNCHANGED <<err, exitCode, failure>>
             ELSE Uncaught("connect")
          /\ UNCHANGED <<result, captured, shell>>
    /\ UNCHANGED <<argv, haveWinrm, host, user, password, command, session,
                   out, sessions>>

\* Line 30: result = session.run_ps(command).  The call opens a remote shell,
\* runs the command, collects its output and closes the shell, then returns
\* the Response; or it raises, before a shell exists or after one was
\* created.  The script does nothing with the shell itself: what becomes of
\* a shell that exists when the exception leaves run_ps is the transport's
\* doing, open or closed.
RunPs ==
    /\ pc = "run_ps"
    /\ session # None
    /\ trace' = Append(trace, "run_ps")
    /\ submissions' = submissions + 1
    /\ \/ \E o \in ByteStrings, e \in ByteStrings, c \in StatusCodes :
            /\ result' = [std_out |-> o, std_err |-> e, status_code |-> c]
            /\ captured' = [std_out |-> o, std_err |-> e]
            /\ shell' = "closed"
            /\ pc' = "relay_out"
            /\ UNCHANGED <<err, exitCode, failure>>
       \/ /\ Uncaught("connect")
          /\ UNCHANGED <<result, captured, shell>>
       \/ \E o \in ByteStrings, e \in ByteStrings, s \in {"open", "closed"} :
            /\ Uncaught("midrun")
            /\ captured' = [std_out |-> o, std_err |-> e]
            /\ shell' = s
            /\ UNCHANGED result
    /\ UNCHANGED <<argv, haveWinrm, host, user, password, command, session,
                   out, sessions>>

\* The stdout relay through a text stream.
RelayStdoutText ==
    /\ pc = "relay_out"
    /\ trace' = Append(trace, "relay_out")
    /\ out' = IF result.std_out # <<>> THEN TextModeWrite(out, result.std_out) ELSE out
    /\ pc' = "relay_err"
    /\ UNCHANGED <<argv, haveWinrm, host, user, password, command, session,
                   result, err, exitCode, shell, captured, sessions,
                   submissions, failure>>

\* Lines 32-33: if result.std_out: sys.stdout.buffer.write(result.std_out)
RelayStdout ==
    /\ pc = "relay_out"
    /\ trace' = Append(trace, "relay_out")
    /\ out' = IF result.std_out # <<>> THEN BufferWrite(out, result.std_out) ELSE out
    /\ pc' = "relay_err"
    /\ UNCHANGED <<argv, haveWinrm, host, user, password, command, session,
                   result, err, exitCode, shell, captured, sessions,
                   submissions, failure>>

\* Lines 34-35: if result.std_err: sys.stderr.buffer.write(result.std_err)
RelayStderr ==
    /\ pc = "relay_err"
    /\ trace' = Append(trace, "relay_err")
    /\ err' = IF result.std_err # <<>> THEN BufferWrite(err, result.std_err) ELSE err
    /\ pc' = "exit"
    /\ UNCHANGED <<argv, haveWinrm, host, user, password, command, session,
                   result, out, exitCode, shell, captured, sessions,
                   submissions, failure>>

\* Line 37: sys.exit(result.status_code)
Exit ==
    /\ pc = "exit"
    /\ trace' = Append(trace, "exit")
    /\ exitCode' = ExitStatus(result.status_code)
    /\ pc' = "done"
    /\ UNCHANGED <<argv, haveWinrm, host, user, password, command, session,
                   result, out, err, shell, captured, sessions, submissions,
                   failure>>

Next ==
    \/ CheckArgs
    \/ ImportWinrm
    \/ CreateSession
    \/ RunPs
    \/ RelayStdout
    \/ RelayStderr
    \/ Exit

Spec == Init /\ [][Next]_vars

(* ----------------------------- vocabulary ------------------------------ *)

\* Number of positional arguments of the invocation.
ArgCount == Len(argv) - 1
Done == pc = "done"
\* run_ps returned a Response.
Executed == result # None
\* The order of the events of a complete invocation.
Order == <<"argcheck", "depcheck", "session", "run_ps", "relay_out", "relay_err", "exit">>
\* The process ended on an exception raised by the transport.
ConnectionFailed == failure \in {"session", "connect", "midrun"}

(* ------------------------------- claims -------------------------------- *)

\* C1: whenever the number of positional arguments is not exactly 4 (fewer or
\* more), the process ends at the argument check with exit code 2, the usage
\* line is the only thing on the error stream, nothing is written to standard
\* output, and no session is ever constructed and no command submitted.
C1_UsageError ==
    ArgCount # 4 =>
        /\ pc \in {"argcheck", "done"}
        /\ sessions = 0 /\ submissions = 0 /\ session = None /\ shell = "none"
        /\ out = <<>>
        /\ Done => /\ exitCode = 2
                   /\ err = <<UsageLine(argv[1])>>

\* C1 witness: an invocation with more than 4 arguments has ended on the
\* usage error.
C1_Witness == Done /\ ArgCount > 4 /\ failure = "usage"

\* C2 (as claimed): whenever run_ps returned a result, the exit code of the
\* local process equals the remote command's exit code, for every exit code
\* the remote command can return.
C2_ExitCodeEqualsRemote ==
    (Done /\ Executed) => exitCode = result.status_code

\* C3: for every executed command the bytes written to local standard output
\* are exactly the captured stdout bytes and the bytes written to local
\* standard error are exactly the captured stderr bytes, unmodified; a stream
\* whose captured value is empty receives no write at all; this holds whatever
\* the remote exit code is.
C3_VerbatimRelay ==
    (Executed /\ pc \in {"exit", "done"}) =>
        /\ BytesOf(out) = result.std_out
        /\ BytesOf(err) = result.std_err
        /\ Len(out) = (IF result.std_out = <<>> THEN 0 ELSE 1)
        /\ Len(err) = (IF result.std_err = <<>> THEN 0 ELSE 1)

\* C3 witness: a command that exited non-zero, whose stdout held both a
\* newline and a non-ASCII byte and whose stderr was empty, has been relayed.
C3_Witness ==
    /\ Done /\ Executed
    /\ result.status_code = 1
    /\ {10, 255} \subseteq Range(result.std_out)
    /\ BytesOf(out) = result.std_out
    /\ result.std_err = <<>> /\ err = <<>>

\* Exit codes the process produces when it relays a non-zero remote exit code.
RelayedNonZeroCodes == {ExitStatus(c) : c \in StatusCodes \ {0}}

\* C4 (as claimed): after a connection failure the process has exited with a
\* non-zero code and a diagnostic on the error stream, and that exit code is
\* none of the codes the process produces by relaying a remote command's own
\* non-zero exit code.
C4_ConnectionFailureDistinct ==
    (Done /\ ConnectionFailed) =>
        /\ exitCode # 0
        /\ TextOf(err) # <<>>
        /\ exitCode \notin RelayedNonZeroCodes

\* C5: with exactly 4 arguments and the winrm import failing, the process ends
\* at the import with exit code 2, the remediation message is the only thing
\* on the error stream, nothing is written to standard output, and no session
\* is constructed and the remote host is never contacted.
C5_TransportUnavailable ==
    (ArgCount = 4 /\ ~haveWinrm) =>
        /\ pc \in {"argcheck", "import", "done"}
        /\ sessions = 0 /\ submissions = 0 /\ session = None /\ shell = "none"
        /\ out = <<>>
        /\ Done => /\ exitCode = 2
                   /\ err = <<RemediationLine>>

\* C5 witness: a 4-argument invocation has ended on the failed import.
C5_Witness == Done /\ ArgCount = 4 /\ ~haveWinrm /\ failure = "import"

\* C6 (as claimed): no execution ends with a remote shell still open.
C6_ShellReleased == Done => shell # "open"

\* C7: at most one session is constructed and at most one command submitted
\* per invocation, exactly one of each when the process exits by relaying the
\* remote result, and a failure ends the process at once, so that no connect
\* or command attempt follows it.
C7_SingleShot ==
    /\ sessions <= 1
    /\ submissions <= 1
    /\ (Done /\ Executed) => (sessions = 1 /\ submissions = 1)
    /\ (failure # "none") => Done

\* C7 witness: the one submission failed and the process has ended without a
\* second attempt.
C7_Witness == Done /\ failure = "connect" /\ sessions = 1 /\ submissions = 1

\* C8 (as claimed): the password appears neither in anything the process
\* writes nor in the process listing.
C8_PasswordNotExposed ==
    password # Unset =>
        /\ password \notin Range(ProcListing)
        /\ \A w \in Range(out) \cup Range(err) : password \notin Range(w.text)

\* C9 (as claimed): after a failure before the remote shell is established no
\* remote output is relayed; after a failure that follows shell creation, the
\* stdout and stderr bytes captured up to the failure have been written to
\* the corresponding local streams.
C9_RelayOnFailure ==
    /\ (Done /\ failure \in {"session", "connect"}) =>
            (BytesOf(out) = <<>> /\ BytesOf(err) = <<>>)
    /\ (Done /\ failure = "midrun") =>
            (BytesOf(out) = captured.std_out /\ BytesOf(err) = captured.std_err)

\* C10: the events of an invocation occur in the order argument check,
\* dependency check, session construction, command submission, stdout relay,
\* stderr relay, exit; no session is constructed before both checks passed;
\* no remote output byte is written before run_ps returned, and none to
\* stderr before the stdout relay; when the argument count is wrong and the
\* dependency is missing too, the usage error is the one reported.
C10_EventOrder ==
    /\ Len(trace) <= Len(Order)
    /\ trace = SubSeq(Order, 1, Len(trace))
    /\ (Done /\ failure = "none") => trace = Order
    /\ sessions > 0 =>
          /\ ArgCount = 4 /\ haveWinrm
          /\ {"argcheck", "depcheck"} \subseteq Range(trace)
    /\ (BytesOf(out) # <<>> \/ BytesOf(err) # <<>>) =>
          (Executed /\ "run_ps" \in Range(trace))
    /\ BytesOf(err) # <<>> => "relay_out" \in Range(trace)
    /\ (Done /\ ArgCount # 4 /\ ~haveWinrm) =>
          (failure = "usage" /\ err = <<UsageLine(argv[1])>>)

\* C10 witness: a complete invocation that relayed bytes on both streams.
C10_Witness ==
    /\ Done /\ failure = "none" /\ trace = Order
    /\ BytesOf(out) # <<>> /\ BytesOf(err) # <<>>

====
